---- MODULE Spec2Model ----
(***************************************************************************)
(* Model of the pylon-lfp-protocol crate: the frame codec (frame.rs,        *)
(* util.rs), the commands (lib.rs, commands/) and the unit types            *)
(* (types.rs).  Bytes are naturals 0..255, byte strings are sequences of    *)
(* bytes, hex fields are sequences of ASCII codes.                          *)
(***************************************************************************)
EXTENDS Integers, Sequences, FiniteSets, TLC

VARIABLES
  rx,        \* the bytes the reader (the receive side of the line) still holds
  tx,        \* the bytes the writer has accepted
  info_buf,  \* the caller's payload buffer as the last decode left it
  ret,       \* what the last call returned, with the call's arguments
  sent,      \* what the peer put on the line (history)
  chk,       \* a Checksum object: its accumulator, the update calls and the
             \* bytes fed since new() or finalize(), whether it was finalized
  resp,      \* an AnalogValueResponse: buf, flags, pack_count
  unit       \* the last call of a function on its own, with argument and result

vars == <<rx, tx, info_buf, ret, sent, chk, resp, unit>>

(***************************************************************************)
(* Program constants                                                        *)
(***************************************************************************)
MAX_ENCODED_PAYLOAD_LEN == 4095

MAX_UNENCODED_PAYLOAD_LEN == MAX_ENCODED_PAYLOAD_LEN \div 2

SOI == 126

EOI == 13

Cid1_BatteryData == 70

ResponseCode_Normal == 0

RS232_PROTOCOL_VERSION_MAJOR == 2

RS232_PROTOCOL_VERSION_MINOR == 8

U16 == 65536

(***************************************************************************)
(* Bounds of the model                                                      *)
(***************************************************************************)
\* longest payload that is enumerated byte by byte
MaxInfo == 2

\* largest number of bytes a writer accepts in one write call
MaxChunk == 4

\* Checksum::update calls on one Checksum object
MaxUpdates == 4

\* most cell voltages and most temperatures in an enumerated pack record
MaxCells == 2

MaxTemps == 2

\* most pack records in an enumerated analog value payload
MaxPacks == 3

(***************************************************************************)
(* Sequence helpers                                                         *)
(***************************************************************************)
\* s[a..b] as a sequence (empty when b < a)
Slice(s, a, b) == SubSeq(s, a, b)

\* n copies of b
Fill(n, b) == SubSeq([i \in 1..n |-> b], 1, n)

RECURSIVE SumRange(_, _, _)
\* s[lo] + ... + s[hi]
SumRange(s, lo, hi) ==
  IF lo > hi THEN 0
  ELSE IF lo = hi THEN s[lo]
  ELSE LET mid == (lo + hi) \div 2
       IN SumRange(s, lo, mid) + SumRange(s, mid + 1, hi)

Min(S) == CHOOSE x \in S : \A y \in S : x <= y

(***************************************************************************)
(* util.rs: hex encoding ({:02X}, {:04X})                                   *)
(***************************************************************************)
\* the uppercase hex digit of a nibble, as an ASCII code
UpperHexDigit(n) == IF n < 10 THEN 48 + n ELSE 55 + n

\* mutant: the low nibble is written first
u8_encode_hex_swapped(value) ==
  <<UpperHexDigit(value % 16), UpperHexDigit(value \div 16)>>

u8_encode_hex(value) ==
  <<UpperHexDigit(value \div 16), UpperHexDigit(value % 16)>>

u16_encode_hex(value) ==
  <<UpperHexDigit(value \div 4096), UpperHexDigit((value \div 256) % 16),
    UpperHexDigit((value \div 16) % 16), UpperHexDigit(value % 16)>>

\* util::calculate_checksum panics: !(sum % 65536) + 1 overflows u32 for
\* sum % 65536 = 0 where overflow checks are compiled in
calculate_checksum_aborts(data, dbg) ==
  dbg /\ SumRange(data, 1, Len(data)) % 65536 = 0

\* util::calculate_checksum: the low 16 bits of !(sum % 65536) + 1
calculate_checksum(data) ==
  LET sum == SumRange(data, 1, Len(data))
      checksum == (65535 - (sum % 65536)) + 1
  IN checksum % 65536

(***************************************************************************)
(* Hex decoding (u8_from_hex, u16_from_hex, DecodeError): the Hex Codec of  *)
(* the specification, section 4.1.  A digit is 0-9, A-F or a-f; anything    *)
(* else, non-ASCII bytes included, is a hex decode error.                   *)
(***************************************************************************)
HexDigitValue(c) ==
  IF c >= 48 /\ c <= 57 THEN c - 48
  ELSE IF c >= 65 /\ c <= 70 THEN c - 55
  ELSE IF c >= 97 /\ c <= 102 THEN c - 87
  ELSE -1

DecodeOk(v) == [ok |-> TRUE, val |-> v, err |-> "none"]

DecodeErr(e) == [ok |-> FALSE, val |-> 0, err |-> e]

u8_from_hex(ascii) ==
  LET h == HexDigitValue(ascii[1])
      l == HexDigitValue(ascii[2])
  IN IF h < 0 \/ l < 0 THEN DecodeErr("HexDecode") ELSE DecodeOk(16 * h + l)

u16_from_hex(ascii) ==
  LET d == [i \in 1..4 |-> HexDigitValue(ascii[i])]
  IN IF \E i \in 1..4 : d[i] < 0 THEN DecodeErr("HexDecode")
     ELSE DecodeOk(4096 * d[1] + 256 * d[2] + 16 * d[3] + d[4])

\* From<DecodeError> for Error (specification, section 7)
ErrorFromDecodeError(e) ==
  IF e = "UnknownVariant" THEN "UnsupportedControlIdentifier" ELSE "InvalidInput"

(***************************************************************************)
(* frame.rs: Checksum                                                       *)
(***************************************************************************)
Checksum_new == 0

\* mutant: update forgets what was added before
Checksum_update_last(acc, data) == SumRange(data, 1, Len(data))

\* acc += value as u32 for every byte of data.  A frame has at most
\* 12 + 4095 checksummed bytes, so the u32 accumulator never wraps.
Checksum_update(acc, data) == acc + SumRange(data, 1, Len(data))

\* !(acc % 65536) + 1 overflows u32 when acc % 65536 = 0 (!0 = u32::MAX):
\* a panic where overflow checks are compiled in, a wrap to 0 elsewhere
Checksum_finalize_aborts(acc, dbg) == dbg /\ acc % U16 = 0

\* the low 16 bits of !(acc % 65536) + 1 (`as u16`)
Checksum_finalize(acc) == ((65535 - (acc % U16)) + 1) % U16

(***************************************************************************)
(* frame.rs: InfoLength                                                     *)
(***************************************************************************)
\* the debug_assert of InfoLength::new fails (builds with debug assertions)
InfoLength_new_aborts(length, dbg) == dbg /\ length > 4095

\* mutant: the checksum nibble is not cut to 4 bits
InfoLength_new_unwrapped(length) ==
  ((15 - (((length % 16) + ((length \div 16) % 16) + ((length \div 256) % 16)) % 16)) + 1)
    * 4096 + length

\* the u16 value; arithmetic wraps where the assertion is compiled out
InfoLength_new(length) ==
  LET nibble1 == length % 16
      nibble2 == (length \div 16) % 16
      nibble3 == (length \div 256) % 16
      sum == nibble1 + nibble2 + nibble3
      checksum == (15 - (sum % 16)) + 1
  IN (((checksum * 4096) % U16) + length) % U16

\* mutant: the length is taken from the low byte only
InfoLength_length_byte(v) == v % 256

InfoLength_length(v) == v % 4096

InfoLength_encode_hex(v) == u16_encode_hex(v)

InfoLength_decode_hex(ascii) == u16_from_hex(ascii)

\* mutant: validate accepts every length field
InfoLength_validate_accepting(v) == TRUE

\* TRUE for Ok(()), FALSE for Err(())
InfoLength_validate(v) == v = InfoLength_new(InfoLength_length(v))

(***************************************************************************)
(* frame.rs: Version, Cid1, Cid2, CommandCode, ResponseCode                 *)
(***************************************************************************)
\* (major << 4) ^ (minor & 0b1111) in u8
Version_new(major, minor) ==
  LET hi == (major * 16) % 256
      lo == minor % 16
  IN hi + lo

Version_default ==
  Version_new(RS232_PROTOCOL_VERSION_MAJOR, RS232_PROTOCOL_VERSION_MINOR)

Version_encode_hex(v) == u8_encode_hex(v)

Version_decode_hex(ascii) == u8_from_hex(ascii)

Cid1_encode_hex == u8_encode_hex(Cid1_BatteryData)

Cid1_decode_hex(ascii) ==
  LET value == u8_from_hex(ascii)
  IN IF ~value.ok THEN value
     ELSE IF value.val = Cid1_BatteryData THEN value
     ELSE DecodeErr("UnknownVariant")

\* the discriminants of enum CommandCode
CommandCodes == {66, 68, 71, 79, 81, 144, 145, 146, 147, 148, 149, 150, 153}

\* the discriminants of enum ResponseCode
ResponseCodes == {0, 1, 2, 3, 4, 5, 6, 144, 145}

Cid2_Command(c) == [kind |-> "Command", code |-> c]

Cid2_Response(c) == [kind |-> "Response", code |-> c]

CommandCode_encode_hex(c) == u8_encode_hex(c)

\* mutant: a command code is taken for a response code
ResponseCode_decode_hex_commands(ascii) ==
  LET value == u8_from_hex(ascii)
  IN IF ~value.ok THEN value
     ELSE IF value.val \in ResponseCodes \cup CommandCodes THEN value
     ELSE DecodeErr("UnknownVariant")

ResponseCode_decode_hex(ascii) ==
  LET value == u8_from_hex(ascii)
  IN IF ~value.ok THEN value
     ELSE IF value.val \in ResponseCodes THEN value
     ELSE DecodeErr("UnknownVariant")

ResponseCode_is_ok(c) == c = ResponseCode_Normal

ResponseCode_is_err(c) == ~ResponseCode_is_ok(c)

(***************************************************************************)
(* frame.rs: Frame::new                                                     *)
(***************************************************************************)
\* info.len() as u16 * 2, wrapped to u16
Frame_new_len(info) == ((Len(info) % U16) * 2) % U16

\* Frame::new panics: the multiplication overflows u16, or the debug_assert
\* of InfoLength::new fails (both only in builds with debug assertions)
Frame_new_aborts(info, dbg) ==
  \/ dbg /\ (Len(info) % U16) * 2 >= U16
  \/ InfoLength_new_aborts(Frame_new_len(info), dbg)

Frame_new(ver, adr, cid2, info) ==
  [ver |-> ver, adr |-> adr, cid1 |-> Cid1_BatteryData, cid2 |-> cid2,
   length |-> InfoLength_new(Frame_new_len(info)), info |-> info]

\* placeholder where an operation returns no frame
NoFrame == Frame_new(0, 0, Cid2_Response(0), <<>>)

(***************************************************************************)
(* frame.rs: Frame::encode.  The writer accepts at most cap bytes in one    *)
(* write call; write_all repeats until every byte is accepted.              *)
(***************************************************************************)
\* the bytes the writer accepts from one out.write(buf) call
Writer_write(buf, cap) == IF Len(buf) <= cap THEN buf ELSE Slice(buf, 1, cap)

\* the bytes the writer accepts from out.write_all(buf)
Writer_write_all(buf, cap) == buf

\* every payload byte as 2 hex characters, in payload order
EncodeInfo(info) ==
  SubSeq([i \in 1..(2 * Len(info)) |->
            u8_encode_hex(info[(i + 1) \div 2])[IF i % 2 = 1 THEN 1 ELSE 2]],
         1, 2 * Len(info))

EncodeResult(status, err, written) ==
  [status |-> status, err |-> err, written |-> written]

\* mutant: the size check is missing
PayloadTooLarge_never(info) == FALSE

\* mutant: the size check compares with the limit of the encoded payload
PayloadTooLarge_encoded(info) == Len(info) > MAX_ENCODED_PAYLOAD_LEN

\* line 152: self.info.len() > MAX_UNENCODED_PAYLOAD_LEN
PayloadTooLarge(info) == Len(info) > MAX_UNENCODED_PAYLOAD_LEN

Frame_encode(f, cap, dbg) ==
  IF PayloadTooLarge(f.info)
  THEN EncodeResult("Err", "InvalidInput", <<>>)
  ELSE IF f.cid2.kind # "Command"
  THEN EncodeResult("Err", "Internal", <<>>)
  ELSE
    LET ver == Version_encode_hex(f.ver)
        adr == u8_encode_hex(f.adr)
        cid1 == Cid1_encode_hex
        cid2 == CommandCode_encode_hex(f.cid2.code)
        len == InfoLength_encode_hex(f.length)
        data == EncodeInfo(f.info)
        \* chksum.update is called once per field and once per payload byte
        acc == Checksum_update(Checksum_update(Checksum_update(
                 Checksum_update(Checksum_update(Checksum_update(
                   Checksum_new, ver), adr), cid1), cid2), len), data)
        chksum == Checksum_finalize(acc)
        upto_data == Writer_write_all(<<SOI>>, cap)
                       \o Writer_write(ver, cap)
                       \o Writer_write(adr, cap)
                       \o Writer_write(cid1, cap)
                       \o Writer_write(cid2, cap)
                       \o Writer_write(len, cap)
                       \o Writer_write_all(data, cap)
    IN IF Checksum_finalize_aborts(acc, dbg)
       THEN EncodeResult("Abort", "overflow", upto_data)
       ELSE EncodeResult("Ok", "none",
              upto_data \o Writer_write_all(u16_encode_hex(chksum), cap)
                        \o Writer_write_all(<<EOI>>, cap))

(***************************************************************************)
(* frame.rs: Frame::decode.  s is what the reader still holds, buf the      *)
(* caller's info_buf, dbg whether debug assertions are compiled in.         *)
(***************************************************************************)
\* taken: bytes consumed from the reader; requested: bytes asked of it
DecodeResult(status, err, code, frame, taken, requested, buf) ==
  [status |-> status, err |-> err, code |-> code, frame |-> frame,
   taken |-> taken, requested |-> requested, buf |-> buf]

DecodeFail(err, taken, requested, buf) ==
  DecodeResult("Err", err, 0, NoFrame, taken, requested, buf)

\* mutant: the end of input is reported as an internal error
ErrorFromUnexpectedEof_internal == "Internal"

\* From<ReadExactError>: UnexpectedEof
ErrorFromUnexpectedEof == "InvalidInput"

\* mutant: the start marker is not compared
SoiMismatch_never(b) == FALSE

\* line 71: soi[0] != Self::SOI
SoiMismatch(b) == b # SOI

\* mutant: the buffer may be one byte short
InfoBufTooSmall_lenient(buf, length) == Len(buf) + 1 < InfoLength_length(length) \div 2

\* line 112: info_buf.len() < length.length() as usize / 2
InfoBufTooSmall(buf, length) == Len(buf) < InfoLength_length(length) \div 2

\* line 133: chksum != calculated_checksum
ChecksumMismatch(chksum, calculated_checksum) == chksum # calculated_checksum

\* line 144: the end of the slice &info_buf[..length.length() as usize]
ReturnedInfoEnd(length) == InfoLength_length(length)

\* payload byte i is read from s[12 + 2i], s[13 + 2i]
InfoHex(s, i) == <<s[12 + 2 * i], s[13 + 2 * i]>>

\* the payload loop stops at byte i: end of input or a hex decode error
InfoStops(s, i) == Len(s) < 13 + 2 * i \/ ~u8_from_hex(InfoHex(s, i)).ok

RECURSIVE FirstInfoStop(_, _, _)
\* the first i in lo..hi where the payload loop stops, 0 when there is none
FirstInfoStop(s, lo, hi) ==
  IF lo > hi THEN 0
  ELSE IF lo = hi THEN (IF InfoStops(s, lo) THEN lo ELSE 0)
  ELSE LET mid == (lo + hi) \div 2
           left == FirstInfoStop(s, lo, mid)
       IN IF left # 0 THEN left ELSE FirstInfoStop(s, mid + 1, hi)

\* info_buf after the loop has stored payload bytes 1..k
InfoStored(s, buf, k) ==
  SubSeq([i \in 1..Len(buf) |->
            IF i <= k THEN u8_from_hex(InfoHex(s, i)).val ELSE buf[i]],
         1, Len(buf))

\* lines 128-146: CHKSUM, the response code, and the frame that is returned
Frame_decode_tail(s, buf, dbg, ver, adr, cid2, length) ==
  LET n == InfoLength_length(length) \div 2
      end == 13 + 2 * n
      filled == InfoStored(s, buf, n)
  IN
  IF Len(s) < end + 4
  THEN DecodeFail(ErrorFromUnexpectedEof, Len(s), end + 4, filled)
  ELSE
    LET chksum == u16_from_hex(Slice(s, end + 1, end + 4))
        \* checksum.update is called once per field and once per payload byte
        acc == Checksum_update(Checksum_new, Slice(s, 2, end))
        calculated_checksum == Checksum_finalize(acc)
        upto == ReturnedInfoEnd(length)
    IN
    IF ~chksum.ok
    THEN DecodeFail(ErrorFromDecodeError(chksum.err), end + 4, end + 4, filled)
    ELSE IF Checksum_finalize_aborts(acc, dbg)
    THEN DecodeResult("Abort", "overflow", 0, NoFrame, end + 4, end + 4, filled)
    ELSE IF ChecksumMismatch(chksum.val, calculated_checksum)
    THEN DecodeFail("Cecksum", end + 4, end + 4, filled)
    ELSE IF ResponseCode_is_err(cid2)
    THEN DecodeResult("Err", "Response", cid2, NoFrame, end + 4, end + 4, filled)
    ELSE IF upto > Len(filled)
    THEN DecodeResult("Abort", "slice", 0, NoFrame, end + 4, end + 4, filled)
    ELSE IF Frame_new_aborts(Slice(filled, 1, upto), dbg)
    THEN DecodeResult("Abort", "length", 0, NoFrame, end + 4, end + 4, filled)
    ELSE DecodeResult("Ok", "none", 0,
           Frame_new(ver, adr, Cid2_Response(cid2), Slice(filled, 1, upto)),
           end + 4, end + 4, filled)

\* lines 104-126: LENGTH and the payload loop
Frame_decode_info(s, buf, dbg, ver, adr, cid2) ==
  IF Len(s) < 13 THEN DecodeFail(ErrorFromUnexpectedEof, Len(s), 13, buf)
  ELSE
    LET length == InfoLength_decode_hex(Slice(s, 10, 13))
    IN
    IF ~length.ok THEN DecodeFail(ErrorFromDecodeError(length.err), 13, 13, buf)
    ELSE IF ~InfoLength_validate(length.val) THEN DecodeFail("Cecksum", 13, 13, buf)
    ELSE
      LET n == InfoLength_length(length.val) \div 2
          stop == FirstInfoStop(s, 1, n)
      IN
      IF InfoBufTooSmall(buf, length.val) THEN DecodeFail("Internal", 13, 13, buf)
      ELSE IF stop # 0
      THEN IF Len(s) < 13 + 2 * stop
           THEN DecodeFail(ErrorFromUnexpectedEof, Len(s), 13 + 2 * stop,
                           InfoStored(s, buf, stop - 1))
           ELSE DecodeFail(ErrorFromDecodeError("HexDecode"), 13 + 2 * stop,
                           13 + 2 * stop, InfoStored(s, buf, stop - 1))
      ELSE Frame_decode_tail(s, buf, dbg, ver, adr, cid2, length.val)

\* lines 67-102: SOI, VER, ADR, CID1, CID2
Frame_decode(s, buf, dbg) ==
  IF Len(s) < 1 THEN DecodeFail("InvalidInput", 0, 1, buf)
  ELSE IF SoiMismatch(s[1]) THEN DecodeFail("InvalidInput", 1, 1, buf)
  ELSE IF Len(s) < 3 THEN DecodeFail(ErrorFromUnexpectedEof, Len(s), 3, buf)
  ELSE
    LET ver == Version_decode_hex(Slice(s, 2, 3))
    IN
    IF ~ver.ok THEN DecodeFail(ErrorFromDecodeError(ver.err), 3, 3, buf)
    ELSE IF Len(s) < 5 THEN DecodeFail(ErrorFromUnexpectedEof, Len(s), 5, buf)
    ELSE
      LET adr == u8_from_hex(Slice(s, 4, 5))
      IN
      IF ~adr.ok THEN DecodeFail(ErrorFromDecodeError(adr.err), 5, 5, buf)
      ELSE IF Len(s) < 7 THEN DecodeFail(ErrorFromUnexpectedEof, Len(s), 7, buf)
      ELSE
        LET cid1 == Cid1_decode_hex(Slice(s, 6, 7))
        IN
        IF ~cid1.ok THEN DecodeFail(ErrorFromDecodeError(cid1.err), 7, 7, buf)
        ELSE IF Len(s) < 9 THEN DecodeFail(ErrorFromUnexpectedEof, Len(s), 9, buf)
        ELSE
          LET cid2 == ResponseCode_decode_hex(Slice(s, 8, 9))
          IN
          IF ~cid2.ok THEN DecodeFail(ErrorFromDecodeError(cid2.err), 9, 9, buf)
          ELSE Frame_decode_info(s, buf, dbg, ver.val, adr.val, cid2.val)

(***************************************************************************)
(* The peer (the battery).  It puts one burst of bytes on the line: a frame *)
(* in the wire format of the protocol, described by its field values and by *)
(* how it deviates from a well-formed frame.                                *)
(***************************************************************************)
PeerHexDigit(n) == <<48, 49, 50, 51, 52, 53, 54, 55, 56, 57, 65, 66, 67, 68, 69, 70>>[n + 1]

PeerHex2(v) == <<PeerHexDigit(v \div 16), PeerHexDigit(v % 16)>>

PeerHex4(v) == PeerHex2(v \div 256) \o PeerHex2(v % 256)

PeerHexInfo(info) ==
  SubSeq([i \in 1..(2 * Len(info)) |->
            IF i % 2 = 1 THEN PeerHexDigit(info[(i + 1) \div 2] \div 16)
            ELSE PeerHexDigit(info[i \div 2] % 16)],
         1, 2 * Len(info))

\* LCHKSUM of the protocol: the sum of the three nibbles of LENID, modulo
\* 16, inverted, plus one
PeerLchksum(lenid) ==
  (16 - (((lenid % 16) + ((lenid \div 16) % 16) + (lenid \div 256)) % 16)) % 16

\* CHKSUM of the protocol: the sum of the ASCII bytes, modulo 65536,
\* inverted, plus one
PeerChksum(ascii) == (U16 - (SumRange(ascii, 1, Len(ascii)) % U16)) % U16

\* the well-formed, empty, Normal response
RefFrame ==
  [soi |-> 126, ver |-> 40, adr |-> 1, cid1 |-> 70, cid2 |-> 0, info |-> <<>>,
   lenadd |-> 0, lchkadd |-> 0, chkadd |-> 0, junk |-> 0, cut |-> 0, trail |-> 0]

PeerLenid(d) == (2 * Len(d.info) + d.lenadd) % 4096

PeerLength(d) == ((PeerLchksum(PeerLenid(d)) + d.lchkadd) % 16) * 4096 + PeerLenid(d)

\* VER .. INFO as ASCII
PeerBody(d) ==
  PeerHex2(d.ver) \o PeerHex2(d.adr) \o PeerHex2(d.cid1) \o PeerHex2(d.cid2)
    \o PeerHex4(PeerLength(d)) \o PeerHexInfo(d.info)

PeerChk(d) == (PeerChksum(PeerBody(d)) + d.chkadd) % U16

\* one frame, SOI .. EOI
PeerFrame(d) == <<d.soi>> \o PeerBody(d) \o PeerHex4(PeerChk(d)) \o <<13>>

\* the frame that follows immediately when d.trail = 1
TrailFrame == [RefFrame EXCEPT !.info = <<90>>]

\* the burst: the frame, a following frame, a byte that is no hex digit
\* ('G') at position junk, and the last cut bytes lost
PeerBytes(d) ==
  LET whole == PeerFrame(d) \o (IF d.trail = 1 THEN PeerFrame(TrailFrame) ELSE <<>>)
      junked == SubSeq([i \in 1..Len(whole) |-> IF i = d.junk THEN 71 ELSE whole[i]],
                       1, Len(whole))
      keep == IF d.cut >= Len(junked) THEN 0 ELSE Len(junked) - d.cut
  IN Slice(junked, 1, keep)

\* payload bytes used in enumerated payloads
InfoBytes == {0, 167}

\* every payload of 1..MaxInfo bytes over InfoBytes
ShortInfos == UNION {[1..n -> InfoBytes] : n \in 1..MaxInfo}

\* a payload of the largest size, and two payloads of 464 bytes with which
\* the ASCII bytes VER .. INFO add up to exactly 65536: the first in
\* RefFrame, the second in RefFrame with response code 0x01
LongInfos ==
  {Fill(MAX_UNENCODED_PAYLOAD_LEN, 167), Fill(463, 255) \o <<0>>,
   Fill(462, 255) \o <<239, 0>>}

\* payloads of the responses to commands: the 24 bytes of a system parameter
\* block (the current of bytes 11, 12 is negative), its first 12 bytes, and
\* an analog value payload of flags, a pack count of 1 and one record
\* without cell voltages and temperatures
ParameterInfo == [i \in 1..24 |-> (11 * i + 100) % 256]

CommandInfos ==
  {ParameterInfo, SubSeq(ParameterInfo, 1, 12),
   <<17, 1, 0, 0, 144, 17, 18, 19, 20, 21, 2, 22, 23, 0, 24>>}

\* deviations of a field from RefFrame, as <<field, value>>
FieldDeviations ==
  ({"soi"} \X {13, 0})
    \cup ({"ver"} \X {32})
    \cup ({"adr"} \X {255})
    \cup ({"cid1"} \X {71})
    \cup ({"cid2"} \X {1, 6, 144, 145, 66, 79, 7})
    \cup ({"info"} \X (ShortInfos \cup LongInfos \cup CommandInfos))
    \cup ({"lenadd"} \X {1, 2})
    \cup ({"lchkadd"} \X {1, 15})
    \cup ({"chkadd"} \X {1, 256, 65535})
    \cup ({"trail"} \X {1})

\* faults of the line: a damaged byte, lost bytes at the end
LineFaults == ({"junk"} \X (2..17)) \cup ({"cut"} \X (1..18))

Deviate(d, a) == [d EXCEPT ![a[1]] = a[2]]

\* the frames the peer may send: RefFrame, RefFrame with one or two field
\* deviations, and RefFrame or a frame with a short payload hit by one
\* line fault
PeerFrames ==
  {RefFrame}
    \cup {Deviate(Deviate(RefFrame, a), b) : a \in FieldDeviations, b \in FieldDeviations}
    \cup {Deviate(RefFrame, a) : a \in LineFaults}
    \cup {Deviate(Deviate(RefFrame, <<"info", i>>), a) : i \in ShortInfos, a \in LineFaults}

(***************************************************************************)
(* The caller                                                               *)
(***************************************************************************)
\* lengths and prior contents of the buffer handed to Frame::decode
BufLens == (0..MaxInfo) \cup {2 * MaxInfo, MAX_UNENCODED_PAYLOAD_LEN}

Buffers == {Fill(n, 238) : n \in BufLens}

\* arguments of Frame::new on the encode path
EncVersions == {Version_default, Version_new(2, 0)}

EncAddresses == {1, 255}

EncCid2s == {Cid2_Command(66), Cid2_Command(79), Cid2_Response(0)}

\* short payloads, the largest payload, one byte more than that, and a
\* payload (464 bytes) with which the ASCII bytes VER .. INFO of a
\* GetProtocolVersion frame, version 2.8, address 1, add up to exactly 65536
EncInfos ==
  {<<>>} \cup ShortInfos
    \cup {Fill(MAX_UNENCODED_PAYLOAD_LEN, 167), Fill(MAX_UNENCODED_PAYLOAD_LEN + 1, 167),
          Fill(462, 255) \o <<11, 0>>}

Call(op, status, err, code, frame, taken, requested, pre_rx, pre_buf, cap, dbg) ==
  [op |-> op, status |-> status, err |-> err, code |-> code, frame |-> frame,
   taken |-> taken, requested |-> requested, pre_rx |-> pre_rx,
   pre_buf |-> pre_buf, cap |-> cap, dbg |-> dbg]

Idle == Call("idle", "none", "none", 0, NoFrame, 0, 0, <<>>, <<>>, 0, FALSE)

NothingSent == [RefFrame EXCEPT !.soi = -1]

\* no function has been called on its own
NoCall == [fn |-> "none"]

\* no AnalogValueResponse has been parsed
NoResponse == [ok |-> FALSE, buf |-> <<>>, flags |-> 0, pack_count |-> 0]

Init ==
  /\ rx = <<>>
  /\ tx = <<>>
  /\ info_buf = <<>>
  /\ ret = Idle
  /\ sent = NothingSent
  /\ chk = [acc |-> Checksum_new, updates |-> 0, fed |-> <<>>, reused |-> FALSE]
  /\ resp = NoResponse
  /\ unit = NoCall

\* the peer puts PeerBytes(d) on the line, once in a run
Transmit(d) ==
  /\ sent = NothingSent
  /\ ret.op = "idle"
  /\ sent' = d
  /\ rx' = rx \o PeerBytes(d)
  /\ UNCHANGED <<tx, info_buf, ret, chk, resp, unit>>

\* Frame::decode(&mut reader, &mut buf); a caller stops at the first failure
Decode(buf, dbg) ==
  /\ ret.op = "idle" \/ (ret.op = "decode" /\ ret.status = "Ok")
  /\ LET r == Frame_decode(rx, buf, dbg)
     IN /\ rx' = Slice(rx, r.taken + 1, Len(rx))
        /\ info_buf' = r.buf
        /\ ret' = Call("decode", r.status, r.err, r.code, r.frame, r.taken,
                       r.requested, rx, buf, 0, dbg)
  /\ UNCHANGED <<tx, sent, chk, resp, unit>>

\* Frame::new(ver, adr, cid2, info).encode(&mut writer)
Encode(ver, adr, cid2, info, cap, dbg) ==
  /\ ret.op = "idle"
  /\ sent = NothingSent
  /\ IF Frame_new_aborts(info, dbg)
     THEN /\ ret' = Call("encode", "Abort", "length", 0,
                         Frame_new(ver, adr, cid2, info), 0, 0, <<>>, <<>>, cap, dbg)
          /\ UNCHANGED tx
     ELSE LET f == Frame_new(ver, adr, cid2, info)
              r == Frame_encode(f, cap, dbg)
          IN /\ tx' = tx \o r.written
             /\ ret' = Call("encode", r.status, r.err, 0, f, 0, 0, <<>>, <<>>, cap, dbg)
  /\ UNCHANGED <<rx, info_buf, sent, chk, resp, unit>>

(***************************************************************************)
(* types.rs: the 16-bit big-endian measurement types (zerocopy)             *)
(***************************************************************************)
\* mutant: the low byte comes first
U16_get_le(buf, i) == buf[i] + 256 * buf[i + 1]

\* big_endian::U16::get of the two bytes at buf[i], buf[i + 1] (Volt,
\* AmpereHours, Temperature; u16::from_be_bytes)
U16_get(buf, i) == 256 * buf[i] + buf[i + 1]

\* big_endian::I16::get (Ampere)
I16_get(buf, i) ==
  IF U16_get(buf, i) >= 32768 THEN U16_get(buf, i) - U16 ELSE U16_get(buf, i)

\* mod exponents: the named metric prefixes
exponents ==
  [NANO |-> -6, MICRO |-> -6, MILLI |-> -3, CENTI |-> -2, DECI |-> -1,
   DECA |-> 1, HECTO |-> 2, KILO |-> 3, MEGA |-> 6]

\* exponents::number: the first arm whose guard holds gives the factor.
\* The f32 literal is written as the fraction num / den it stands for;
\* den = 0 stands for panic!("Exponent not supported").
number(exp) ==
  IF exp = exponents.NANO THEN [num |-> 1, den |-> 1000000000]
  ELSE IF exp = exponents.MICRO THEN [num |-> 1, den |-> 1000000]
  ELSE IF exp = exponents.MILLI THEN [num |-> 1, den |-> 1000]
  ELSE IF exp = exponents.CENTI THEN [num |-> 1, den |-> 100]
  ELSE IF exp = exponents.DECI THEN [num |-> 1, den |-> 10]
  ELSE IF exp = exponents.DECA THEN [num |-> 10, den |-> 1]
  ELSE IF exp = exponents.HECTO THEN [num |-> 100, den |-> 1]
  ELSE IF exp = exponents.KILO THEN [num |-> 1000, den |-> 1]
  ELSE IF exp = exponents.MEGA THEN [num |-> 1000000, den |-> 1]
  ELSE [num |-> 0, den |-> 0]

\* get_raw of the unit type kind laid over the two bytes at buf[1], buf[2]
get_raw(kind, buf) == IF kind = "Ampere" THEN I16_get(buf, 1) ELSE U16_get(buf, 1)

\* impl Display: the prefix written after the raw value ("{} mV"), "" when
\* the computed value is written instead ("{:.2} V", "{:.1} K")
Display_prefix(kind, exp) ==
  IF kind = "Temperature" THEN ""
  ELSE IF exp = exponents.NANO THEN "n"
  ELSE IF exp = exponents.MILLI THEN "m"
  ELSE IF exp = exponents.KILO THEN "k"
  ELSE ""

\* mutant: the switch change is read from bit 3
ChangeFlags_switch_change_bit3(flags) == (flags \div 8) % 2 = 1

\* ChangeFlags::switch_change: self.0 & 0b0001_0000 != 0
ChangeFlags_switch_change(flags) == (flags \div 16) % 2 = 1

\* ChangeFlags::alarm_change: self.0 & 0b0000_0001 != 0
ChangeFlags_alarm_change(flags) == flags % 2 = 1

(***************************************************************************)
(* commands/get_analog_value.rs: PackData::from_bytes.  Positions are       *)
(* 1-based: the record's count byte is buf[1].                              *)
(***************************************************************************)
PackResult(status, err, pack) == [status |-> status, err |-> err, pack |-> pack]

NoPack ==
  [cell_voltages |-> <<>>, temperatures |-> <<>>, pack_current |-> 0,
   pack_voltage |-> 0, pack_remaining |-> 0, user_defined |-> 0,
   total_capacity |-> 0, cell_cycles |-> 0, len_bytes |-> 0]

\* AnalogValueParseError::InvalidInput
PackInvalid == PackResult("Err", "InvalidInput", NoPack)

\* a panic: split_at beyond the end, index out of bounds
PackAbort(why) == PackResult("Abort", why, NoPack)

\* ref_from_prefix_with_elems(rest, count): count 16-bit values from at
PrefixElems(buf, at, count) == [i \in 1..count |-> U16_get(buf, at + 2 * (i - 1))]

\* lines 93-131: the fields after the temperatures; t_end bytes are consumed
PackData_from_bytes_tail(buf, volts, temps, t_end) ==
  \* read_from_prefix of pack current, pack voltage, pack remaining
  IF Len(buf) < t_end + 2 THEN PackInvalid
  ELSE IF Len(buf) < t_end + 4 THEN PackInvalid
  ELSE IF Len(buf) < t_end + 6 THEN PackInvalid
  \* rest.first(), rest.get(1..)
  ELSE IF Len(buf) < t_end + 7 THEN PackInvalid
  \* read_from_prefix of total capacity
  ELSE IF Len(buf) < t_end + 9 THEN PackInvalid
  \* [rest[0], rest[1]] and &rest[2..]
  ELSE IF Len(buf) < t_end + 11 THEN PackAbort("index")
  ELSE PackResult("Ok", "none",
         [cell_voltages |-> volts, temperatures |-> temps,
          pack_current |-> I16_get(buf, t_end + 1),
          pack_voltage |-> U16_get(buf, t_end + 3),
          pack_remaining |-> U16_get(buf, t_end + 5),
          user_defined |-> buf[t_end + 7],
          total_capacity |-> U16_get(buf, t_end + 8),
          cell_cycles |-> U16_get(buf, t_end + 10),
          len_bytes |-> t_end + 11])

\* lines 76-91: the counts, the cell voltages and the temperatures
PackData_from_bytes(buf) ==
  IF Len(buf) = 0 THEN PackInvalid
  ELSE
    LET volt_count == buf[1]
        v_end == 1 + 2 * volt_count
    IN
    IF Len(buf) < v_end THEN PackInvalid
    \* rest.split_at(1) on an empty rest
    ELSE IF Len(buf) < v_end + 1 THEN PackAbort("split_at")
    ELSE
      LET temp_count == buf[v_end + 1]
          t_end == v_end + 1 + 2 * temp_count
      IN
      IF Len(buf) < t_end THEN PackInvalid
      ELSE PackData_from_bytes_tail(buf, PrefixElems(buf, 2, volt_count),
                                    PrefixElems(buf, v_end + 2, temp_count), t_end)

\* PackData::len
PackData_len(pack) == pack.len_bytes

\* the unit type and the default exponent of the fields of PackData
PackData_defaults ==
  [cell_voltages |-> [kind |-> "Volt", exp |-> exponents.MILLI],
   temperatures |-> [kind |-> "Temperature", exp |-> exponents.DECI],
   pack_current |-> [kind |-> "Ampere", exp |-> exponents.MILLI],
   pack_voltage |-> [kind |-> "Volt", exp |-> exponents.MILLI],
   pack_remaining |-> [kind |-> "AmpereHours", exp |-> exponents.MILLI],
   total_capacity |-> [kind |-> "AmpereHours", exp |-> exponents.MILLI]]

(***************************************************************************)
(* commands/get_system_parameter.rs: the unit type and the default exponent *)
(* of the fields of SystemParameter                                         *)
(***************************************************************************)
SystemParameter_defaults ==
  [unit_cell_voltage |-> [kind |-> "Volt", exp |-> exponents.MILLI],
   unit_cell_low_voltage_threshold |-> [kind |-> "Volt", exp |-> exponents.MILLI],
   unit_cell_under_voltage_threshold |-> [kind |-> "Volt", exp |-> exponents.MILLI],
   charge_upper_limit_temp |-> [kind |-> "Temperature", exp |-> exponents.MILLI],
   charge_lower_limit_temp |-> [kind |-> "Temperature", exp |-> exponents.MILLI],
   charge_lower_limit_current |-> [kind |-> "Ampere", exp |-> exponents.MILLI],
   upper_limit_total_voltage |-> [kind |-> "Volt", exp |-> exponents.MILLI],
   lower_limit_total_voltage |-> [kind |-> "Volt", exp |-> exponents.MILLI],
   under_voltage_of_total_voltage |-> [kind |-> "Volt", exp |-> exponents.MILLI],
   discharge_upper_limit_temp |-> [kind |-> "Temperature", exp |-> exponents.MILLI],
   discharge_lower_limit_temp |-> [kind |-> "Temperature", exp |-> exponents.MILLI],
   discharge_lower_limit_current |-> [kind |-> "Ampere", exp |-> exponents.MILLI]]

(***************************************************************************)
(* commands/get_analog_value.rs: AnalogValueResponse                        *)
(***************************************************************************)
\* AnalogValueResponse::from_bytes; ok is FALSE for Err(InvalidInput)
AnalogValueResponse_from_bytes(buf) ==
  IF Len(buf) < 2 THEN NoResponse
  ELSE [ok |-> TRUE, buf |-> SubSeq(buf, 3, Len(buf)), flags |-> buf[1],
        pack_count |-> buf[2]]

\* mutant: the pack number may equal the pack count
PackNumberOutOfRange_lenient(pack_number, pack_count) == pack_number > pack_count

\* line 189: pack_number >= self.get_pack_count()
PackNumberOutOfRange(pack_number, pack_count) == pack_number >= pack_count

\* mutant: every record is taken to have no cell voltage and no temperature
Advance_fixed(rest, pack) == SubSeq(rest, 14, Len(rest))

\* line 208: rest = &rest[pack.len()..]
Advance(rest, pack) == SubSeq(rest, PackData_len(pack) + 1, Len(rest))

RECURSIVE get_pack_from(_, _)
\* lines 198-210: skip n records, then parse the next one
get_pack_from(rest, n) ==
  IF n = 0 THEN PackData_from_bytes(rest)
  ELSE LET skipped == PackData_from_bytes(rest)
       IN IF skipped.status # "Ok" THEN skipped
          ELSE get_pack_from(Advance(rest, skipped.pack), n - 1)

\* AnalogValueResponse::get_pack
AnalogValueResponse_get_pack(self, pack_number) ==
  IF PackNumberOutOfRange(pack_number, self.pack_count) THEN PackInvalid
  ELSE get_pack_from(self.buf, pack_number)

(***************************************************************************)
(* lib.rs: PylontechBms.  A command is written to the UART, then the        *)
(* response is decoded from what the UART delivers (s).                     *)
(***************************************************************************)
\* SystemParameter::new_zeroed().as_mut_bytes(): twelve 2-byte fields
SystemParameter_new_zeroed == Fill(24, 0)

\* field i (1..12) of the SystemParameter laid over bytes; fields 6 and 12
\* are Ampere (signed), the others Volt and Temperature
SystemParameter_field(bytes, i) ==
  IF i \in {6, 12} THEN I16_get(bytes, 2 * i - 1) ELSE U16_get(bytes, 2 * i - 1)

\* what a command returns: written are the bytes the UART accepted, buf the
\* caller's buffer (the SystemParameter itself) afterwards
BmsResult(status, err, code, taken, requested, buf, written, response) ==
  [status |-> status, err |-> err, code |-> code, taken |-> taken,
   requested |-> requested, buf |-> buf, written |-> written,
   response |-> response]

\* packet.encode(&mut self.uart)?; self.uart.flush()?; Frame::decode(..)?
Exchange(s, packet, buf, cap, dbg) ==
  LET e == Frame_encode(packet, cap, dbg)
      r == Frame_decode(s, buf, dbg)
  IN IF e.status # "Ok"
     THEN BmsResult(e.status, e.err, 0, 0, 0, buf, e.written, NoResponse)
     ELSE BmsResult(r.status, r.err, r.code, r.taken, r.requested, r.buf,
                    e.written, NoResponse)

\* PylontechBms::get_system_parameter
PylontechBms_get_system_parameter(s, cap, dbg) ==
  Exchange(s, Frame_new(Version_default, 1, Cid2_Command(71), <<>>),
           SystemParameter_new_zeroed, cap, dbg)

\* PylontechBms::get_analog_value: the response is parsed from paylaod_buf
PylontechBms_get_analog_value(s, address, paylaod_buf, cap, dbg) ==
  LET x == Exchange(s, Frame_new(Version_default, 1, Cid2_Command(66), <<address>>),
                    paylaod_buf, cap, dbg)
      measurements == AnalogValueResponse_from_bytes(x.buf)
  IN IF x.status # "Ok" THEN x
     ELSE IF ~measurements.ok THEN [x EXCEPT !.status = "Err", !.err = "InvalidInput"]
     ELSE [x EXCEPT !.response = measurements]

\* the buffers handed to get_analog_value: three lengths, each with two
\* prior contents
AnalogBuffers ==
  {Fill(n, b) : n \in {MaxInfo, 2 * MaxInfo, MAX_UNENCODED_PAYLOAD_LEN},
                b \in {0, 238}}

\* the state after a command call that returned r
Returned(op, r, buf, cap, dbg) ==
  /\ tx' = tx \o r.written
  /\ rx' = Slice(rx, r.taken + 1, Len(rx))
  /\ info_buf' = r.buf
  /\ resp' = r.response
  /\ ret' = Call(op, r.status, r.err, r.code, NoFrame, r.taken, r.requested,
                 rx, buf, cap, dbg)

\* bms.get_system_parameter(); rx is what the UART delivers in answer, and
\* the UART accepts MaxChunk bytes in one write call
GetSystemParameter(dbg) ==
  /\ ret.op = "idle"
  /\ sent # NothingSent
  /\ Returned("get_system_parameter",
              PylontechBms_get_system_parameter(rx, MaxChunk, dbg),
              SystemParameter_new_zeroed, MaxChunk, dbg)
  /\ UNCHANGED <<sent, chk, unit>>

\* bms.get_analog_value(address, &mut paylaod_buf)
GetAnalogValue(address, paylaod_buf, dbg) ==
  /\ ret.op = "idle"
  /\ sent # NothingSent
  /\ Returned("get_analog_value",
              PylontechBms_get_analog_value(rx, address, paylaod_buf, MaxChunk, dbg),
              paylaod_buf, MaxChunk, dbg)
  /\ UNCHANGED <<sent, chk, unit>>

Next ==
  \/ \E d \in PeerFrames : Transmit(d)
  \/ \E buf \in Buffers, dbg \in BOOLEAN : Decode(buf, dbg)
  \/ \E ver \in EncVersions, adr \in EncAddresses, cid2 \in EncCid2s,
        info \in EncInfos, cap \in 1..MaxChunk, dbg \in BOOLEAN :
       Encode(ver, adr, cid2, info, cap, dbg)
  \/ \E dbg \in BOOLEAN : GetSystemParameter(dbg)
  \/ \E address \in EncAddresses, paylaod_buf \in AnalogBuffers, dbg \in BOOLEAN :
       GetAnalogValue(address, paylaod_buf, dbg)

Spec == Init /\ [][Next]_vars

(***************************************************************************)
(* The functions of the codec called on their own, as the unit tests of the *)
(* crate call them: every action is one call, unit records it.              *)
(***************************************************************************)
\* the variables of the frame codec runs, untouched by the calls below
codec == <<rx, tx, info_buf, ret, sent>>

\* test_calculate_checksum: b"1203400456ABCEFE"
ChecksumTestInput ==
  <<49, 50, 48, 51, 52, 48, 48, 52, 53, 54, 65, 66, 67, 69, 70, 69>>

\* the byte strings handed to Checksum::update: none, one byte, the test
\* input, and 257 bytes that add up to 65535
UpdateInputs == {<<>>, <<1>>, ChecksumTestInput, Fill(257, 255)}

\* a run calls the functions of one type only
ChecksumCalls == {"none", "update", "finalize"}

\* checksum.update(data)
ChecksumUpdate(data) ==
  /\ unit.fn \in ChecksumCalls
  /\ chk.updates < MaxUpdates
  /\ chk' = [chk EXCEPT !.acc = Checksum_update(chk.acc, data),
                        !.updates = chk.updates + 1,
                        !.fed = chk.fed \o data]
  /\ unit' = [fn |-> "update", acc |-> chk.acc, data |-> data]
  /\ UNCHANGED <<codec, resp>>

\* checksum.finalize(), and util::calculate_checksum over the bytes fed to
\* the object in pieces; a panic leaves no object to look at, the model
\* keeps the object as it was
ChecksumFinalize(dbg) ==
  /\ unit.fn \in ChecksumCalls
  /\ unit' = [fn |-> "finalize", acc |-> chk.acc, dbg |-> dbg,
              aborts |-> Checksum_finalize_aborts(chk.acc, dbg),
              res |-> Checksum_finalize(chk.acc),
              fed |-> chk.fed, pieces |-> chk.updates, reused |-> chk.reused,
              calc_aborts |-> calculate_checksum_aborts(chk.fed, dbg),
              calc |-> calculate_checksum(chk.fed)]
  /\ chk' = IF Checksum_finalize_aborts(chk.acc, dbg) THEN chk
            ELSE [acc |-> 0, updates |-> 0, fed |-> <<>>, reused |-> TRUE]
  /\ UNCHANGED <<codec, resp>>

\* the lengths handed to InfoLength::new, the values handed to validate
LengthInputs == 0..MAX_ENCODED_PAYLOAD_LEN

U16Values == 0..(U16 - 1)

\* test_info_length and the round trip: InfoLength::new(length), then
\* validate(), length() and decode_hex(encode_hex()) of the result.  The
\* functions without state are called once in a run.
InfoLengthNew ==
  /\ unit = NoCall
  /\ \E length \in LengthInputs :
       unit' = [fn |-> "InfoLength_new", length |-> length,
                res |-> InfoLength_new(length),
                valid |-> InfoLength_validate(InfoLength_new(length)),
                len |-> InfoLength_length(InfoLength_new(length)),
                hex |-> InfoLength_encode_hex(InfoLength_new(length)),
                decoded |-> InfoLength_decode_hex(
                              InfoLength_encode_hex(InfoLength_new(length)))]
  /\ UNCHANGED <<codec, chk, resp>>

\* InfoLength(v).validate()
InfoLengthValidate ==
  /\ unit = NoCall
  /\ \E v \in U16Values :
       unit' = [fn |-> "InfoLength_validate", v |-> v,
                res |-> InfoLength_validate(v)]
  /\ UNCHANGED <<codec, chk, resp>>

U8Values == 0..255

\* u8_encode_hex(value), then u8_from_hex of the result
HexU8 ==
  /\ unit = NoCall
  /\ \E value \in U8Values :
       unit' = [fn |-> "u8_hex", value |-> value, hex |-> u8_encode_hex(value),
                decoded |-> u8_from_hex(u8_encode_hex(value))]
  /\ UNCHANGED <<codec, chk, resp>>

\* u16_encode_hex(value), then u16_from_hex of the result
HexU16 ==
  /\ unit = NoCall
  /\ \E value \in U16Values :
       unit' = [fn |-> "u16_hex", value |-> value, hex |-> u16_encode_hex(value),
                decoded |-> u16_from_hex(u16_encode_hex(value))]
  /\ UNCHANGED <<codec, chk, resp>>

\* a complete pack record with nv cell voltages and nt temperatures whose
\* bytes are told apart by b; the pack current is negative for b < 128
PackRecord(nv, nt, b) ==
  <<nv>> \o SubSeq([i \in 1..(2 * nv) |-> (b + i) % 256], 1, 2 * nv)
    \o <<nt>> \o SubSeq([i \in 1..(2 * nt) |-> (b + 32 + i) % 256], 1, 2 * nt)
    \o <<(b + 128) % 256, b + 1, b + 2, b + 3, b + 4, b + 5, 2, b + 6, b + 7,
         0, b + 8>>

PackRecords ==
  {PackRecord(nv, nt, b) : nv \in 0..MaxCells, nt \in 0..MaxTemps, b \in {16, 200}}

Prefixes(s) == {SubSeq(s, 1, n) : n \in 0..Len(s)}

\* what follows a record in the buffer: nothing, stray bytes, a record
PackTails == {<<>>, <<9, 9, 9>>, PackRecord(1, 0, 16)}

\* the buffers handed to PackData::from_bytes: every record cut at every
\* length, every record with every tail, and counts beyond the buffer
PackBuffers ==
  UNION {Prefixes(r) : r \in PackRecords}
    \cup {r \o t : r \in PackRecords, t \in PackTails}
    \cup {<<255>> \o Fill(20, 1), <<1, 3, 4, 255>> \o Fill(20, 1)}

\* PackData::from_bytes(buf)
PackFromBytes ==
  /\ unit = NoCall
  /\ \E buf \in PackBuffers :
       unit' = [fn |-> "PackData_from_bytes", buf |-> buf,
                res |-> PackData_from_bytes(buf)]
  /\ UNCHANGED <<codec, chk, resp>>

\* the records of the enumerated payloads
PayloadRecords == {PackRecord(0, 0, 16), PackRecord(MaxCells, 1, 16), PackRecord(1, MaxTemps, 200)}

RECURSIVE PackBodies(_)
\* n records one after the other
PackBodies(n) ==
  IF n = 0 THEN {<<>>}
  ELSE {r \o b : r \in PayloadRecords, b \in PackBodies(n - 1)}

\* bytes missing at the end of a payload
PayloadCuts == {0, 1, 5}

\* the payloads handed to AnalogValueResponse::from_bytes: flags, a pack
\* count, and 0..MaxPacks records, whole or cut short; every value of the
\* flags byte before one record; and two payloads without a pack count
AnalogPayloads ==
  {<<>>, <<17>>}
    \cup {<<f, 1>> \o PackRecord(0, 0, 16) : f \in U8Values}
    \cup {<<17, pc>> \o SubSeq(b, 1, IF Len(b) >= c THEN Len(b) - c ELSE 0) :
            pc \in 0..(MaxPacks + 1), c \in PayloadCuts,
            b \in UNION {PackBodies(n) : n \in 0..MaxPacks}}

\* AnalogValueResponse::from_bytes(payload), then flags.switch_change() and
\* flags.alarm_change() of the result
ResponseFromBytes ==
  /\ unit = NoCall
  /\ \E payload \in AnalogPayloads :
       /\ resp' = AnalogValueResponse_from_bytes(payload)
       /\ unit' = [fn |-> "AnalogValueResponse_from_bytes", buf |-> payload,
                   ok |-> AnalogValueResponse_from_bytes(payload).ok,
                   switch_change |-> ChangeFlags_switch_change(
                     AnalogValueResponse_from_bytes(payload).flags),
                   alarm_change |-> ChangeFlags_alarm_change(
                     AnalogValueResponse_from_bytes(payload).flags)]
  /\ UNCHANGED <<codec, chk>>

\* the pack numbers handed to get_pack
PackNumbers == (0..(MaxPacks + 1)) \cup {255}

\* response.get_pack(pack_number); prev is the pack number of the call
\* before this one on the same response, -1 when there was none
GetPack ==
  /\ resp.ok
  /\ unit.fn \in {"AnalogValueResponse_from_bytes", "get_pack"}
  /\ \E pack_number \in PackNumbers :
       unit' = [fn |-> "get_pack", pack_number |-> pack_number,
                prev |-> IF unit.fn = "get_pack" THEN unit.pack_number ELSE -1,
                res |-> AnalogValueResponse_get_pack(resp, pack_number)]
  /\ UNCHANGED <<codec, chk, resp>>

\* the two bytes a unit type is laid over (test_from_bytes, and 0xFFFF)
TypeBytes == {<<13, 69>>, <<191, 104>>, <<11, 195>>, <<255, 255>>}

\* a unit type with one of the named exponents laid over two bytes, then
\* get_raw, the factor of get_volt / get_ampere / get_ampere_hours / kelvin
\* (the value is raw * factor) and Display
GetPhysical ==
  /\ unit = NoCall
  /\ \E kind \in {"Volt", "Ampere", "AmpereHours", "Temperature"},
        name \in DOMAIN exponents, buf \in TypeBytes :
       unit' = [fn |-> "physical", kind |-> kind, name |-> name,
                exp |-> exponents[name], raw |-> get_raw(kind, buf),
                factor |-> number(exponents[name]),
                prefix |-> Display_prefix(kind, exponents[name])]
  /\ UNCHANGED <<codec, chk, resp>>

\* a field of a PackData<'_> or of a SystemParameter with the default type
\* parameters: its raw value and the factor of its physical value
ReadField ==
  /\ unit = NoCall
  /\ \E owner \in {"PackData", "SystemParameter"}, buf \in TypeBytes :
       LET fields == IF owner = "PackData" THEN PackData_defaults
                     ELSE SystemParameter_defaults
       IN \E field \in DOMAIN fields :
            unit' = [fn |-> "field", owner |-> owner, field |-> field,
                     kind |-> fields[field].kind, exp |-> fields[field].exp,
                     raw |-> get_raw(fields[field].kind, buf),
                     factor |-> number(fields[field].exp)]
  /\ UNCHANGED <<codec, chk, resp>>

UnitNext ==
  \/ \E data \in UpdateInputs : ChecksumUpdate(data)
  \/ \E dbg \in BOOLEAN : ChecksumFinalize(dbg)
  \/ InfoLengthNew
  \/ InfoLengthValidate
  \/ HexU8
  \/ HexU16
  \/ PackFromBytes
  \/ ResponseFromBytes
  \/ GetPack
  \/ GetPhysical
  \/ ReadField

UnitSpec == Init /\ [][UnitNext]_vars

(***************************************************************************)
(* Vocabulary of the properties                                             *)
(***************************************************************************)
\* the nine response codes of the protocol
KnownResponseCodes == {0, 1, 2, 3, 4, 5, 6, 144, 145}

\* d is a complete frame in the wire format with correct LENGTH and CHKSUM
WellFormed(d) ==
  /\ d.soi = 126 /\ d.cid1 = 70 /\ d.cid2 \in KnownResponseCodes
  /\ d.lenadd = 0 /\ d.lchkadd = 0 /\ d.chkadd = 0 /\ d.junk = 0 /\ d.cut = 0

\* the last call was Frame::decode on the burst as the peer sent it
FirstDecode == ret.op = "decode" /\ sent # NothingSent /\ ret.pre_rx = PeerBytes(sent)

\* the buffer handed to the last decode holds the payload of the sent frame
BufferHolds == Len(ret.pre_buf) >= Len(sent.info)

\* the frame of the wire format for a command
CommandWire(ver, adr, code, info) ==
  LET lenid == 2 * Len(info)
      body == PeerHex2(ver) \o PeerHex2(adr) \o <<52, 54>> \o PeerHex2(code)
                \o PeerHex4(PeerLchksum(lenid) * 4096 + lenid) \o PeerHexInfo(info)
  IN <<126>> \o body \o PeerHex4(PeerChksum(body)) \o <<13>>

\* the value of four hex digits
Hex4Value(a) ==
  4096 * HexDigitValue(a[1]) + 256 * HexDigitValue(a[2])
    + 16 * HexDigitValue(a[3]) + HexDigitValue(a[4])

(***************************************************************************)
(* C1: for every frame built by Frame::new with a command code and a       *)
(* payload of N <= 2047 bytes, Frame::encode returns Ok and the writer      *)
(* holds exactly the 18 + 2N bytes of the wire format: SOI, VER, ADR, "46", *)
(* CID2, LENGTH = InfoLength::new(2N), the payload in hex, CHKSUM, EOI.     *)
(***************************************************************************)
C1_EncodeWritesFrame ==
  (ret.op = "encode" /\ ret.frame.cid2.kind = "Command"
     /\ Len(ret.frame.info) <= 2047)
  => /\ ret.status = "Ok"
     /\ Len(tx) = 18 + 2 * Len(ret.frame.info)
     /\ tx = CommandWire(ret.frame.ver, ret.frame.adr, ret.frame.cid2.code,
                         ret.frame.info)

(***************************************************************************)
(* C2: for every well-formed Normal response frame with N payload bytes and *)
(* a buffer of at least N bytes, Frame::decode stores the payload in        *)
(* info_buf[0..N] and returns a frame whose info is exactly those N bytes   *)
(* and whose length field is the one read from the wire (length() = 2N).    *)
(***************************************************************************)
C2_DecodeReturnsPayload ==
  (FirstDecode /\ WellFormed(sent) /\ sent.cid2 = 0 /\ BufferHolds)
  => /\ ret.status = "Ok"
     /\ SubSeq(info_buf, 1, Len(sent.info)) = sent.info
     /\ ret.frame.info = sent.info
     /\ ret.frame.length = PeerLength(sent)
     /\ ret.frame.length % 4096 = 2 * Len(sent.info)

(***************************************************************************)
(* C3: after Frame::decode returns Ok for a well-formed frame the reader    *)
(* has consumed every byte of the frame, the EOI included, so that a        *)
(* well-formed frame that follows immediately decodes Ok as well.           *)
(***************************************************************************)
C3_DecodeConsumesEoi ==
  /\ (FirstDecode /\ WellFormed(sent) /\ ret.status = "Ok")
     => /\ ret.taken = Len(PeerFrame(sent))
        /\ rx = (IF sent.trail = 1 THEN PeerFrame(TrailFrame) ELSE <<>>)
  /\ (ret.op = "decode" /\ sent # NothingSent /\ WellFormed(sent)
        /\ sent.trail = 1 /\ ret.pre_rx # PeerBytes(sent)
        /\ Len(ret.pre_buf) >= 2 * Len(TrailFrame.info))
     => ret.status = "Ok"

(***************************************************************************)
(* C4: for every well-formed Normal response frame with N <= 2047 payload   *)
(* bytes, Frame::decode with a buffer of exactly N bytes, or of             *)
(* MAX_UNENCODED_PAYLOAD_LEN bytes, returns Ok and does not abort.          *)
(***************************************************************************)
C4_DecodeNeverAborts ==
  (FirstDecode /\ WellFormed(sent) /\ sent.cid2 = 0
     /\ Len(ret.pre_buf) \in {Len(sent.info), MAX_UNENCODED_PAYLOAD_LEN})
  => ret.status = "Ok"

(***************************************************************************)
(* C5: when the CHKSUM field of an otherwise well-formed frame holds any    *)
(* other value, Frame::decode (given a buffer that holds the payload) fails *)
(* with the checksum error; and decode returns Ok only when the transmitted *)
(* checksum equals the one computed over the ASCII bytes VER .. INFO.       *)
(***************************************************************************)
C5_CorruptChecksumRejected ==
  /\ (FirstDecode /\ WellFormed([sent EXCEPT !.chkadd = 0]) /\ sent.chkadd # 0
        /\ BufferHolds)
     => (ret.status = "Err" /\ ret.err = "Cecksum")
  /\ (ret.op = "decode" /\ ret.status = "Ok")
     => Hex4Value(SubSeq(ret.pre_rx, ret.taken - 3, ret.taken))
          = PeerChksum(SubSeq(ret.pre_rx, 2, ret.taken - 4))

(***************************************************************************)
(* C6: when the checksum nibble of a received length field does not match   *)
(* its 12-bit length, Frame::decode fails with the checksum error           *)
(* (Error::Cecksum), and it has then requested the 13 bytes up to the       *)
(* length field and no payload byte, and info_buf is as it was.             *)
(***************************************************************************)
C6_LengthChecksumRejected ==
  (FirstDecode /\ sent.lchkadd # 0
     /\ WellFormed([sent EXCEPT !.lchkadd = 0, !.lenadd = 0, !.chkadd = 0]))
  => /\ ret.status = "Err" /\ ret.err = "Cecksum"
     /\ ret.requested = 13 /\ ret.taken = 13
     /\ info_buf = ret.pre_buf

C6_Witness ==
  /\ FirstDecode /\ sent.lchkadd # 0 /\ Len(sent.info) > 0
  /\ Len(ret.pre_buf) >= Len(sent.info)
  /\ ret.err = "Cecksum" /\ ret.requested = 13

(***************************************************************************)
(* C7: a received frame with valid length and frame checksums and a known   *)
(* response code other than Normal makes Frame::decode (given a buffer that *)
(* holds the payload) return Error::Response with exactly that code; every  *)
(* frame decode returns Ok has cid2 = Response(Normal); a non-Normal code   *)
(* with a wrong frame checksum yields the checksum error.                   *)
(***************************************************************************)
C7_ResponseErrorSurfaced ==
  /\ (FirstDecode /\ WellFormed(sent) /\ sent.cid2 # 0 /\ BufferHolds)
     => (ret.status = "Err" /\ ret.err = "Response" /\ ret.code = sent.cid2)
  /\ (ret.op = "decode" /\ ret.status = "Ok")
     => ret.frame.cid2 = [kind |-> "Response", code |-> 0]
  /\ (FirstDecode /\ WellFormed([sent EXCEPT !.chkadd = 0]) /\ sent.chkadd # 0
        /\ sent.cid2 # 0 /\ BufferHolds)
     => (ret.status = "Err" /\ ret.err = "Cecksum")

(***************************************************************************)
(* C8: Frame::decode fails with UnsupportedControlIdentifier when CID1      *)
(* decodes to a byte other than 0x46, or when CID2 decodes to a byte that   *)
(* is none of the nine response codes; a command code (0x42, 0x4F) in CID2  *)
(* is not accepted.                                                         *)
(***************************************************************************)
C8_UnknownIdentifierRejected ==
  (FirstDecode /\ sent.soi = 126 /\ sent.junk = 0 /\ sent.cut = 0
     /\ (sent.cid1 # 70 \/ sent.cid2 \notin KnownResponseCodes))
  => (ret.status = "Err" /\ ret.err = "UnsupportedControlIdentifier")

C8_Witness ==
  /\ FirstDecode /\ sent.cid1 = 70 /\ sent.cid2 = 79
  /\ ret.err = "UnsupportedControlIdentifier"

(***************************************************************************)
(* C9: Frame::decode first requests exactly one byte; when no byte is       *)
(* available or the byte is not 0x7E it fails with InvalidInput, has        *)
(* requested no further byte and has written nothing to info_buf.           *)
(***************************************************************************)
C9_StartMarkerChecked ==
  (ret.op = "decode")
  => /\ ret.requested >= 1
     /\ (ret.pre_rx = <<>> \/ ret.pre_rx[1] # 126)
        => /\ ret.status = "Err" /\ ret.err = "InvalidInput"
           /\ ret.requested = 1
           /\ ret.taken = (IF ret.pre_rx = <<>> THEN 0 ELSE 1)
           /\ info_buf = ret.pre_buf

C9_Witness ==
  /\ ret.op = "decode" /\ Len(ret.pre_rx) > 1 /\ ret.pre_rx[1] = 13
  /\ Len(ret.pre_buf) > 0 /\ ret.err = "InvalidInput" /\ Len(rx) = Len(ret.pre_rx) - 1

(***************************************************************************)
(* C10: Frame::encode on a frame whose payload is longer than               *)
(* MAX_UNENCODED_PAYLOAD_LEN (2047) bytes returns an error and has written  *)
(* no byte, not even the start marker.                                      *)
(***************************************************************************)
C10_OversizeWritesNothing ==
  (ret.op = "encode" /\ ~(ret.status = "Abort" /\ ret.err = "length")
     /\ Len(ret.frame.info) > 2047)
  => (ret.status = "Err" /\ tx = <<>>)

C10_Witness ==
  /\ ret.op = "encode" /\ ret.status = "Err" /\ Len(ret.frame.info) = 2048
  /\ ret.frame.cid2.kind = "Command" /\ tx = <<>>

\* the last call was Frame::encode on a frame with more than 2047 payload
\* bytes (Frame::new returned it)
EncodedOversize ==
  /\ ret.op = "encode" /\ ~(ret.status = "Abort" /\ ret.err = "length")
  /\ Len(ret.frame.info) > MAX_UNENCODED_PAYLOAD_LEN

(***************************************************************************)
(* C11 as stated: encoding a frame whose payload is longer than 2047 bytes  *)
(* fails with the Internal error variant.                                   *)
(***************************************************************************)
C11_OversizeIsInternal ==
  EncodedOversize => (ret.status = "Err" /\ ret.err = "Internal")

(***************************************************************************)
(* C11 amended: encoding a frame whose payload is longer than 2047 bytes    *)
(* fails with InvalidInput, whatever its cid2; Frame::encode returns        *)
(* Internal only for a frame of at most 2047 payload bytes whose cid2 is    *)
(* not a command code.                                                      *)
(***************************************************************************)
C11_OversizeIsInvalidInput ==
  /\ EncodedOversize => (ret.status = "Err" /\ ret.err = "InvalidInput")
  /\ (ret.op = "encode" /\ ret.err = "Internal")
     => /\ Len(ret.frame.info) <= MAX_UNENCODED_PAYLOAD_LEN
        /\ ret.frame.cid2.kind # "Command"

C11_Witness ==
  /\ EncodedOversize /\ ret.frame.cid2.kind = "Response"
  /\ ret.status = "Err" /\ ret.err = "InvalidInput"

\* the reader holds, undamaged, SOI .. LENGTH of a frame with the fixed
\* CID1, a response code and a valid LENGTH field
HeaderArrives ==
  /\ FirstDecode /\ sent.soi = 126 /\ sent.cid1 = 70
  /\ sent.cid2 \in KnownResponseCodes /\ sent.lchkadd = 0
  /\ (sent.junk = 0 \/ sent.junk > 13) /\ Len(ret.pre_rx) >= 13

(***************************************************************************)
(* C12: when info_buf is shorter than the payload byte count announced by   *)
(* a valid length field (length / 2), Frame::decode returns                 *)
(* Error::Internal, has requested the 13 bytes up to the length field and   *)
(* no payload byte, and info_buf is as it was; decode returns Internal in   *)
(* no other case.                                                           *)
(***************************************************************************)
C12_ShortBufferIsInternal ==
  /\ (HeaderArrives /\ Len(ret.pre_buf) < PeerLenid(sent) \div 2)
     => /\ ret.status = "Err" /\ ret.err = "Internal"
        /\ ret.requested = 13 /\ ret.taken = 13
        /\ rx = SubSeq(ret.pre_rx, 14, Len(ret.pre_rx))
        /\ info_buf = ret.pre_buf
  /\ (FirstDecode /\ ret.err = "Internal")
     => (HeaderArrives /\ Len(ret.pre_buf) < PeerLenid(sent) \div 2)

C12_Witness ==
  /\ HeaderArrives /\ Len(sent.info) = 2 /\ sent.lenadd = 0
  /\ Len(ret.pre_buf) = 1 /\ ret.err = "Internal" /\ Len(rx) = 9

(***************************************************************************)
(* C13: for every accumulated sum S, S = 0 and the multiples of 65536       *)
(* included, Checksum::finalize returns (65536 - (S mod 65536)) mod 65536   *)
(* without an arithmetic overflow and leaves the accumulator at 0; the      *)
(* bytes of "1203400456ABCEFE" give 0xFC71.                                 *)
(***************************************************************************)
C13_FinalizeTotal ==
  (unit.fn = "finalize")
  => /\ ~unit.aborts
     /\ unit.res = (65536 - (unit.acc % 65536)) % 65536
     /\ chk.acc = 0
     /\ (unit.acc = SumRange(ChecksumTestInput, 1, 16)) => unit.res = 64625

\* the checksum nibble of a 12-bit length l as the protocol states it:
\* the sum of the nibbles modulo 16, inverted, plus one, cut to 4 bits
StatedNibble(l) ==
  ((15 - (((l % 16) + ((l \div 16) % 16) + (l \div 256)) % 16)) + 1) % 16

(***************************************************************************)
(* C14: for every L in 0..4095 the 16-bit value of InfoLength::new(L) has   *)
(* L in its low 12 bits and the stated checksum nibble in its top 4 bits    *)
(* (L = 18 gives 0b1101_0000_0001_0010, L = 0 gives 0); a 16-bit value      *)
(* passes validate() exactly when its top nibble is the stated nibble of    *)
(* its low 12 bits.                                                         *)
(***************************************************************************)
C14_LengthFieldLayout ==
  /\ (unit.fn = "InfoLength_new")
     => /\ unit.res \in U16Values
        /\ unit.res % 4096 = unit.length
        /\ unit.res \div 4096 = StatedNibble(unit.length)
        /\ (unit.length = 18) => unit.res = 53266
        /\ (unit.length = 0) => unit.res = 0
  /\ (unit.fn = "InfoLength_validate")
     => (unit.res <=> (unit.v \div 4096 = StatedNibble(unit.v % 4096)))

C14_Witness ==
  /\ unit.fn = "InfoLength_new" /\ unit.length = 241 /\ unit.res = 241

(***************************************************************************)
(* C15: for every length L in 0..4095, InfoLength::new(L).validate()        *)
(* succeeds, new(L).length() = L, and decode_hex(encode_hex(new(L))) is     *)
(* new(L).                                                                  *)
(***************************************************************************)
C15_LengthRoundTrip ==
  (unit.fn = "InfoLength_new")
  => /\ unit.valid
     /\ unit.len = unit.length
     /\ unit.decoded.ok /\ unit.decoded.val = unit.res

C15_Witness ==
  /\ unit.fn = "InfoLength_new" /\ unit.length = 4095 /\ unit.valid
  /\ unit.hex = <<51, 70, 70, 70>> /\ unit.decoded.val = unit.res

\* ASCII codes of the uppercase hex digits 0-9, A-F
UpperHexChars == (48..57) \cup (65..70)

(***************************************************************************)
(* C16: for every byte b, hex-decoding the 2-character uppercase            *)
(* zero-padded encoding u8_encode_hex(b) returns b, and for every 16-bit    *)
(* value v hex-decoding the 4-character encoding u16_encode_hex(v)          *)
(* returns v.                                                               *)
(***************************************************************************)
C16_HexRoundTrip ==
  /\ (unit.fn = "u8_hex")
     => /\ Len(unit.hex) = 2
        /\ \A i \in 1..2 : unit.hex[i] \in UpperHexChars
        /\ unit.decoded.ok /\ unit.decoded.val = unit.value
        /\ (unit.value = 12) => unit.hex = <<48, 67>>
  /\ (unit.fn = "u16_hex")
     => /\ Len(unit.hex) = 4
        /\ \A i \in 1..4 : unit.hex[i] \in UpperHexChars
        /\ unit.decoded.ok /\ unit.decoded.val = unit.value
        /\ (unit.value = 2562) => unit.hex = <<48, 65, 48, 50>>

C16_Witness ==
  /\ unit.fn = "u16_hex" /\ unit.value = 43981
  /\ unit.hex = <<65, 66, 67, 68>> /\ unit.decoded.val = 43981

\* the big-endian 16-bit value at bytes i, i + 1 of buf (1-based)
Be16(buf, i) == 256 * buf[i] + buf[i + 1]

\* the counts of the record that starts after off bytes of buf
VoltCountAt(buf, off) == buf[off + 1]

TempCountAt(buf, off) == buf[off + 2 + 2 * VoltCountAt(buf, off)]

\* the length of that record: 13 bytes and two for every voltage and
\* temperature
RecordLen(buf, off) == 13 + 2 * (VoltCountAt(buf, off) + TempCountAt(buf, off))

\* buf holds the whole record that starts after off bytes
CompleteAt(buf, off) ==
  /\ Len(buf) >= off + 1
  /\ Len(buf) >= off + 2 + 2 * VoltCountAt(buf, off)
  /\ Len(buf) >= off + RecordLen(buf, off)

\* the fields of that record, in the order of the protocol
RecordAt(buf, off) ==
  LET nv == VoltCountAt(buf, off)
      nt == TempCountAt(buf, off)
      t == off + 2 + 2 * nv + 2 * nt
      current == Be16(buf, t + 1)
  IN [cell_voltages |-> [i \in 1..nv |-> Be16(buf, off + 2 * i)],
      temperatures |-> [i \in 1..nt |-> Be16(buf, off + 2 * nv + 1 + 2 * i)],
      pack_current |-> IF current >= 32768 THEN current - 65536 ELSE current,
      pack_voltage |-> Be16(buf, t + 3),
      pack_remaining |-> Be16(buf, t + 5),
      user_defined |-> buf[t + 7],
      total_capacity |-> Be16(buf, t + 8),
      cell_cycles |-> Be16(buf, t + 10),
      len_bytes |-> RecordLen(buf, off)]

(***************************************************************************)
(* C17: PackData::from_bytes on a buffer that starts with a complete pack   *)
(* record reads, in order, the voltage count, the big-endian cell           *)
(* voltages, the temperature count, the big-endian temperatures, the        *)
(* signed pack current, pack voltage, remaining charge, the user-defined    *)
(* byte, total capacity and the cycle count; its consumed length is         *)
(* 13 + 2 * (n_volt + n_temp), whatever bytes follow the record.            *)
(***************************************************************************)
C17_PackRecordLayout ==
  (unit.fn = "PackData_from_bytes" /\ CompleteAt(unit.buf, 0))
  => /\ unit.res.status = "Ok"
     /\ unit.res.pack = RecordAt(unit.buf, 0)
     /\ Len(unit.res.pack.cell_voltages) = unit.buf[1]
     /\ PackData_len(unit.res.pack)
          = 13 + 2 * (Len(unit.res.pack.cell_voltages)
                        + Len(unit.res.pack.temperatures))

C17_Witness ==
  /\ unit.fn = "PackData_from_bytes"
  /\ unit.buf = PackRecord(2, 1, 16) \o <<9, 9, 9>>
  /\ unit.res.status = "Ok" /\ unit.res.pack.len_bytes = 19
  /\ unit.res.pack.pack_current < 0
  /\ unit.res.pack.cell_voltages = <<4370, 4884>>

(***************************************************************************)
(* C18: PackData::from_bytes on a buffer that ends before the record is     *)
(* complete, at whatever step, returns InvalidInput and does not abort.     *)
(***************************************************************************)
C18_ShortRecordIsInvalidInput ==
  (unit.fn = "PackData_from_bytes" /\ ~CompleteAt(unit.buf, 0))
  => (unit.res.status = "Err" /\ unit.res.err = "InvalidInput")

RECURSIVE RecordStart(_, _)
\* the bytes before record k in one front-to-back walk of buf: the sum of
\* the lengths of records 0 .. k - 1
RecordStart(buf, k) ==
  IF k = 0 THEN 0
  ELSE RecordStart(buf, k - 1) + RecordLen(buf, RecordStart(buf, k - 1))

RECURSIVE CompleteFrom(_, _, _)
\* buf holds n + 1 whole records, the first of them after off bytes
CompleteFrom(buf, off, n) ==
  /\ CompleteAt(buf, off)
  /\ (n = 0 \/ CompleteFrom(buf, off + RecordLen(buf, off), n - 1))

(***************************************************************************)
(* C19: for every k < pack_count whose records 0..k are complete in the     *)
(* buffer, get_pack(k) decodes the record that starts at the sum of the     *)
(* lengths of records 0..k-1, so its fields are those of record k of one    *)
(* front-to-back walk; the result does not depend on the get_pack calls     *)
(* made before.                                                             *)
(***************************************************************************)
C19_GetPackWalks ==
  (unit.fn = "get_pack" /\ unit.pack_number < resp.pack_count
     /\ CompleteFrom(resp.buf, 0, unit.pack_number))
  => /\ unit.res.status = "Ok"
     /\ unit.res.pack = RecordAt(resp.buf, RecordStart(resp.buf, unit.pack_number))

C19_Witness ==
  /\ unit.fn = "get_pack" /\ unit.pack_number = 2 /\ unit.prev = 0
  /\ resp.pack_count = 3 /\ CompleteFrom(resp.buf, 0, 2)
  /\ RecordStart(resp.buf, 2) = 38
  /\ unit.res.status = "Ok" /\ Len(unit.res.pack.cell_voltages) = 2

(***************************************************************************)
(* C20: get_pack(k) returns InvalidInput for every k >= pack_count,         *)
(* whatever the pack buffer holds (pack_count = 0 and buffers with more     *)
(* complete records than pack_count announces included).                    *)
(***************************************************************************)
C20_PackNumberChecked ==
  (unit.fn = "get_pack" /\ unit.pack_number >= resp.pack_count)
  => (unit.res.status = "Err" /\ unit.res.err = "InvalidInput")

C20_Witness ==
  /\ unit.fn = "get_pack" /\ unit.pack_number = 1 /\ resp.pack_count = 1
  /\ CompleteFrom(resp.buf, 0, 1)
  /\ unit.res.status = "Err" /\ unit.res.err = "InvalidInput"

(***************************************************************************)
(* C21: AnalogValueResponse::from_bytes fails with InvalidInput on a buffer *)
(* shorter than 2 bytes; otherwise flags is byte 0 and pack_count is byte   *)
(* 1, switch_change() is true exactly when bit 4 of byte 0 is set,          *)
(* alarm_change() exactly when bit 0 of byte 0 is set, and the bytes from   *)
(* offset 2 on are kept unchanged as the pack buffer.                       *)
(***************************************************************************)
C21_ResponseHeader ==
  (unit.fn = "AnalogValueResponse_from_bytes")
  => /\ unit.ok <=> Len(unit.buf) >= 2
     /\ resp.ok = unit.ok
     /\ unit.ok
        => /\ resp.flags = unit.buf[1]
           /\ resp.pack_count = unit.buf[2]
           /\ unit.switch_change <=> (unit.buf[1] % 32 >= 16)
           /\ unit.alarm_change <=> (unit.buf[1] % 2 = 1)
           /\ Len(resp.buf) = Len(unit.buf) - 2
           /\ \A i \in 1..Len(resp.buf) : resp.buf[i] = unit.buf[i + 2]

C21_Witness ==
  /\ unit.fn = "AnalogValueResponse_from_bytes" /\ unit.ok
  /\ unit.buf[1] = 24 /\ unit.switch_change /\ ~unit.alarm_change
  /\ resp.pack_count = 1 /\ Len(resp.buf) = 13

\* the last call was the command op, answered by a complete Normal
\* response frame with correct LENGTH and CHKSUM
NormalAnswer(op) == ret.op = op /\ WellFormed(sent) /\ sent.cid2 = 0

(***************************************************************************)
(* C22: PylontechBms::get_system_parameter, on a well-formed Normal         *)
(* response with exactly 24 payload bytes, returns Ok with field i          *)
(* (i = 0..11) equal to the big-endian 16-bit value of payload bytes 2i     *)
(* and 2i+1 (the two current fields read as signed); on a Normal response   *)
(* with fewer than 24 payload bytes it returns an error rather than a       *)
(* record padded with zeros.                                                *)
(***************************************************************************)
C22_SystemParameterDecoded ==
  NormalAnswer("get_system_parameter")
  => /\ (Len(sent.info) = 24)
        => /\ ret.status = "Ok"
           /\ \A i \in 1..12 :
                SystemParameter_field(info_buf, i)
                  \in {Be16(sent.info, 2 * i - 1), Be16(sent.info, 2 * i - 1) - 65536}
     /\ (Len(sent.info) < 24) => ret.status = "Err"

(***************************************************************************)
(* C23: with default type parameters, every temperature field of PackData   *)
(* and of SystemParameter uses scale exponent -1 (deci-Kelvin), and every   *)
(* voltage, current and charge field uses scale exponent -3.                *)
(***************************************************************************)
C23_DefaultExponents ==
  (unit.fn = "field")
  => /\ (unit.kind = "Temperature") => unit.exp = -1
     /\ (unit.kind \in {"Volt", "Ampere", "AmpereHours"}) => unit.exp = -3

RECURSIVE Pow10(_)
\* 10^n for n >= 0
Pow10(n) == IF n = 0 THEN 1 ELSE 10 * Pow10(n - 1)

(***************************************************************************)
(* C24: for every exponent Exp named by a constant (NANO, MICRO, MILLI,     *)
(* CENTI, DECI, DECA, HECTO, KILO, MEGA) the factor applied to the raw      *)
(* value by get_volt, get_ampere, get_ampere_hours and kelvin is 10^Exp,    *)
(* and only an exponent that means nano (-9), milli (-3) or kilo (3) is     *)
(* displayed as the raw value with the n, m or k prefix.                    *)
(***************************************************************************)
C24_FactorIsPowerOfTen ==
  (unit.fn = "physical")
  => /\ unit.factor.den # 0
     /\ (unit.exp < 0) => (unit.factor.num = 1 /\ unit.factor.den = Pow10(-unit.exp))
     /\ (unit.exp > 0) => (unit.factor.num = Pow10(unit.exp) /\ unit.factor.den = 1)
     /\ (unit.prefix = "n") => unit.exp = -9
     /\ (unit.prefix = "m") => unit.exp = -3
     /\ (unit.prefix = "k") => unit.exp = 3

(***************************************************************************)
(* C25: Frame::decode ends after a bounded number of read requests: the     *)
(* bytes it has requested are 1, 3, 5, 7, 9 or 13 (steps of 1, 2, 2, 2, 2   *)
(* and 4 bytes), or 13 + 2k for a k <= floor(L/2), or                       *)
(* 1 + 12 + 2*floor(L/2) + 4, where L <= 4095 is the decoded length; it     *)
(* never takes more bytes than it requested, and when the reader reaches    *)
(* the end of input in a read step it returns InvalidInput.                 *)
(***************************************************************************)
C25_DecodeReadsBounded ==
  (ret.op = "decode")
  => /\ ret.taken <= ret.requested
     /\ ret.requested <= 1 + 12 + 2 * (4095 \div 2) + 4
     /\ \/ ret.requested \in {1, 3, 5, 7, 9, 13}
        \/ /\ Len(ret.pre_rx) >= 13
           /\ LET L == Hex4Value(SubSeq(ret.pre_rx, 10, 13)) % 4096
              IN \/ \E k \in 1..(L \div 2) : ret.requested = 13 + 2 * k
                 \/ ret.requested = 1 + 12 + 2 * (L \div 2) + 4
     /\ (ret.taken < ret.requested)
        => (ret.status = "Err" /\ ret.err = "InvalidInput" /\ rx = <<>>)

C25_Witness ==
  /\ FirstDecode /\ sent.cut > 0 /\ Len(sent.info) = 2 /\ Len(ret.pre_buf) >= 2
  /\ ret.requested = 15 /\ ret.taken = 14
  /\ ret.status = "Err" /\ ret.err = "InvalidInput"

(***************************************************************************)
(* C26: feeding a byte sequence to Checksum::update in any number of        *)
(* consecutive pieces and then calling finalize gives the value that        *)
(* util::calculate_checksum gives over the whole sequence (and fails in the *)
(* same builds for the same sequences); this holds as well for a Checksum   *)
(* that was finalized before, which so behaves as a newly created one.      *)
(***************************************************************************)
C26_PiecewiseEqualsWhole ==
  (unit.fn = "finalize")
  => /\ unit.aborts <=> unit.calc_aborts
     /\ ~unit.aborts => unit.res = unit.calc
     /\ (~unit.aborts /\ unit.fed = ChecksumTestInput) => unit.res = 64625

C26_Witness ==
  /\ unit.fn = "finalize" /\ unit.reused /\ unit.pieces = 3
  /\ unit.fed = <<1>> \o ChecksumTestInput \o <<1>>
  /\ ~unit.aborts /\ unit.res = unit.calc

(***************************************************************************)
(* C27: the result of PylontechBms::get_analog_value depends only on the    *)
(* response frame just received: a run that receives the same frame in a    *)
(* buffer of the same length with other prior contents returns the same     *)
(* error, or the same flags, the same pack count and the same result of     *)
(* get_pack for every index; no byte left in the buffer from before the     *)
(* call shows in the result.                                                *)
(***************************************************************************)
C27_PriorContentsIgnored ==
  (ret.op = "get_analog_value")
  => \A other \in AnalogBuffers :
       (Len(other) = Len(ret.pre_buf))
       => LET o == PylontechBms_get_analog_value(ret.pre_rx, 1, other, ret.cap, ret.dbg)
          IN /\ o.status = ret.status /\ o.err = ret.err /\ o.code = ret.code
             /\ (ret.status = "Ok")
                => /\ o.response.flags = resp.flags
                   /\ o.response.pack_count = resp.pack_count
                   /\ \A k \in PackNumbers :
                        AnalogValueResponse_get_pack(o.response, k)
                          = AnalogValueResponse_get_pack(resp, k)

(***************************************************************************)
(* C28: when Frame::encode returns Ok, the writer has accepted every byte   *)
(* of the frame, in order and without gaps, also when the writer accepts    *)
(* fewer bytes than offered in one write call: no byte of the version,      *)
(* address, CID1, CID2 or length field is dropped after a short write.      *)
(***************************************************************************)
C28_ShortWritesCompleted ==
  (ret.op = "encode" /\ ret.status = "Ok")
  => /\ Len(tx) = 18 + 2 * Len(ret.frame.info)
     /\ tx = CommandWire(ret.frame.ver, ret.frame.adr, ret.frame.cid2.code,
                         ret.frame.info)

====
